---- MODULE Spec2Model ----
(***************************************************************************)
(* State machine of SnakeGame and VideoProcessor.recv in                   *)
(* streamlit_snake_app.py.                                                 *)
(*                                                                         *)
(* Positions and directions are pairs <<x, y>> in pixels, as in the code.  *)
(* Time is an integer clock in units of 0.03 s, in which game_speed (0.12) *)
(* is 4 and direction_cooldown (0.15) is 5.  self.width and self.height    *)
(* are set once, at construction, to an even number of cells of grid_size  *)
(* pixels: the model constructs every board of 2..2*HalfCols columns and   *)
(* 2..2*HalfRows rows (the program's own board is 32 x 24 cells).         *)
(***************************************************************************)
EXTENDS Integers, Sequences, FiniteSets

\* ---- bounds of the model ------------------------------------------------
HalfCols == 2
HalfRows == 1
MaxTime == 24

\* ---- configuration (SnakeGame.__init__) ----------------------------------
grid_size == 20
game_speed == 4
direction_cooldown == 5
dead_zone == 40

VARIABLES
    width,                  \* self.width
    height,                 \* self.height
    snake,                  \* self.snake, head first
    direction,              \* self.direction
    food,                   \* self.food
    score,                  \* self.score
    game_over,              \* self.game_over
    last_update,            \* self.last_update
    last_direction_change,  \* self.last_direction_change
    now,                    \* the value time.time() returns
    pc,                     \* "idle", or "generate_food" while update() is inside generate_food's loop
    event,                  \* history: what the last step did (in SpecResolver: the call's
                            \* <<kind, fingertip, direction before>>)
    applied                 \* history: direction used by the last acting tick of this game, NoDir if none

vars == <<width, height, snake, direction, food, score, game_over, last_update,
          last_direction_change, now, pc, event, applied>>

NoDir == <<0, 0>>
Right == <<grid_size, 0>>
Left == <<-grid_size, 0>>
Down == <<0, grid_size>>
Up == <<0, -grid_size>>
Directions == {Up, Down, Left, Right}

Abs(n) == IF n < 0 THEN -n ELSE n
Negate(d) == <<d[1] * (-1), d[2] * (-1)>>

\* the values random.randint(0, (size - grid_size) // grid_size) * grid_size can take
RandCoord(size) == {k * grid_size : k \in 0..((size - grid_size) \div grid_size)}

Segments(s) == {s[i] : i \in 1..Len(s)}
\* self.snake[1:]
Body(s) == {s[i] : i \in 2..Len(s)}

Cells == RandCoord(width) \X RandCoord(height)

\* (seeded fault: the membership test of line 102 dropped)
generate_food_unchecked(s) == Cells
\* the cells generate_food() can return: its loop re-draws until the cell is off the
\* snake, so it returns none while the snake covers the board
generate_food(s) == {p \in Cells : p \notin Segments(s)}

\* (seeded fault: >= for > on the dead zone)
get_hand_direction_inclusive(finger, s, dir) ==
    LET dx == finger[1] - s[1][1]
        dy == finger[2] - s[1][2]
        new_direction ==
            IF Abs(dx) > Abs(dy) /\ Abs(dx) >= dead_zone
            THEN (IF dx > 0 THEN <<grid_size, 0>> ELSE <<-grid_size, 0>>)
            ELSE IF Abs(dy) > Abs(dx) /\ Abs(dy) >= dead_zone
            THEN (IF dy > 0 THEN <<0, grid_size>> ELSE <<0, -grid_size>>)
            ELSE dir
    IN  IF Negate(new_direction) = dir THEN dir ELSE new_direction

\* get_hand_direction, on the fingertip pixel <<finger_x, finger_y>>
get_hand_direction(finger, s, dir) ==
    LET dx == finger[1] - s[1][1]
        dy == finger[2] - s[1][2]
        new_direction ==
            IF Abs(dx) > Abs(dy) /\ Abs(dx) > dead_zone
            THEN (IF dx > 0 THEN <<grid_size, 0>> ELSE <<-grid_size, 0>>)
            ELSE IF Abs(dy) > Abs(dx) /\ Abs(dy) > dead_zone
            THEN (IF dy > 0 THEN <<0, grid_size>> ELSE <<0, -grid_size>>)
            ELSE dir
    IN  IF Negate(new_direction) = dir THEN dir ELSE new_direction

\* ---- inputs ---------------------------------------------------------------
NoHand == <<"none">>
\* fingertip pixels: one far beyond each edge of the board (the far axis dominates
\* from every head cell) and the board's centre
Reach == width + height + dead_zone
Samples ==
    { NoHand,
      <<width \div 2, 0 - Reach>>, <<width \div 2, height + Reach>>,
      <<0 - Reach, height \div 2>>, <<width + Reach, height \div 2>>,
      <<width \div 2, height \div 2>> }
\* gaps between clock readings: inside the tick interval, exactly on it (and inside
\* the cooldown), and beyond the cooldown
Delays == {game_speed \div 2, game_speed, direction_cooldown + 1}
\* gap between the previous clock reading and a press of the Restart button
ResetDelays == {game_speed \div 2}

\* ---- construction -----------------------------------------------------------
Init ==
    /\ width \in {2 * k * grid_size : k \in 1..HalfCols}
    /\ height \in {2 * k * grid_size : k \in 1..HalfRows}
    /\ snake = << <<width \div 2, height \div 2>> >>
    /\ direction = <<grid_size, 0>>
    /\ food \in generate_food(snake)
    /\ score = 0
    /\ game_over = FALSE
    /\ last_update = 0
    /\ last_direction_change = 0
    /\ now = 0
    /\ pc = "idle"
    /\ event = "init"
    /\ applied = NoDir

\* ---- SnakeGame.reset_game, from the Restart button ---------------------------
\* The button runs on the UI thread, so it is also enabled while the video thread sits
\* in generate_food's loop (pc = "generate_food").
\* (seeded fault: line 95 dropped, the tick clock keeps running)
reset_game_keeps_clock(dt) ==
    /\ now + dt <= MaxTime
    /\ now' = now + dt
    /\ snake' = << <<width \div 2, height \div 2>> >>
    /\ direction' = <<grid_size, 0>>
    /\ food' \in generate_food(snake')
    /\ score' = 0
    /\ game_over' = FALSE
    /\ event' = "reset"
    /\ applied' = NoDir
    /\ UNCHANGED <<width, height, last_update, last_direction_change, pc>>

\* (seeded fault: line 93 dropped, the score survives the restart)
reset_game_keeps_score(dt) ==
    /\ now + dt <= MaxTime
    /\ now' = now + dt
    /\ snake' = << <<width \div 2, height \div 2>> >>
    /\ direction' = <<grid_size, 0>>
    /\ food' \in generate_food(snake')
    /\ game_over' = FALSE
    /\ last_update' = now'
    /\ event' = "reset"
    /\ applied' = NoDir
    /\ UNCHANGED <<width, height, score, last_direction_change, pc>>

reset_game(dt) ==
    /\ now + dt <= MaxTime
    /\ now' = now + dt
    /\ snake' = << <<width \div 2, height \div 2>> >>
    /\ direction' = <<grid_size, 0>>
    /\ food' \in generate_food(snake')
    /\ score' = 0
    /\ game_over' = FALSE
    /\ last_update' = now'
    /\ event' = "reset"
    /\ applied' = NoDir
    /\ UNCHANGED <<width, height, last_direction_change, pc>>

\* ---- SnakeGame.update ---------------------------------------------------------
\* line 136, with current_time = t
\* (seeded fault: half the interval)
tick_not_due_half(t, lu) == t - lu < game_speed \div 2
tick_not_due(t, lu) == t - lu < game_speed

\* lines 141-142
\* (seeded fault: the direction not added)
new_head_in_place(s, dir) == <<s[1][1], s[1][2]>>
\* (seeded fault: direction[0] added to both coordinates)
new_head_typo(s, dir) == <<s[1][1] + dir[1], s[1][2] + dir[1]>>
new_head(s, dir) == <<s[1][1] + dir[1], s[1][2] + dir[2]>>

\* lines 144-145
\* (seeded fault: the test against the top edge dropped)
hits_wall_no_top(h) ==
    \/ h[1] < 0 \/ h[1] >= width
    \/ h[2] >= height
\* (seeded fault: > for >=)
hits_wall_off_by_one(h) ==
    \/ h[1] < 0 \/ h[1] > width
    \/ h[2] < 0 \/ h[2] > height
hits_wall(h) ==
    \/ h[1] < 0 \/ h[1] >= width
    \/ h[2] < 0 \/ h[2] >= height

\* line 146
\* (seeded fault: the self-collision test dropped)
hits_body_never(h, s) == FALSE
hits_body(h, s) == h \in Body(s)

\* self.game_over once update() is through: line 147 sets it, nothing else writes it
\* (seeded fault: the flag recomputed on every call)
game_over_recomputed(over, hit) == hit
game_over_after(over, hit) == IF hit THEN TRUE ELSE over

\* line 150 alone (food eaten), and lines 150 and 156 (no food)
\* (seeded fault: the tail popped on an eating tick too)
grown_and_popped(s, h) == SubSeq(<<h>> \o s, 1, Len(s))
grown(s, h) == <<h>> \o s
\* (seeded fault: pop(0) for pop(), the new head removed again)
moved_pop_front(s, h) == s
moved(s, h) == SubSeq(<<h>> \o s, 1, Len(s))

\* update() called at clock reading t, with dir in self.direction
update(t, dir) ==
    IF game_over
    THEN /\ event' = "over"
         /\ game_over' = game_over_after(game_over, FALSE)
         /\ UNCHANGED <<snake, food, score, last_update, pc, applied>>
    ELSE IF tick_not_due(t, last_update)
    THEN /\ event' = "wait"
         /\ game_over' = game_over_after(game_over, FALSE)
         /\ UNCHANGED <<snake, food, score, last_update, pc, applied>>
    ELSE
        LET h == new_head(snake, dir)
            hit == hits_wall(h) \/ hits_body(h, snake)
        IN  /\ last_update' = t
            /\ applied' = dir
            /\ game_over' = game_over_after(game_over, hit)
            /\ IF hit
               THEN /\ event' = "collide"
                    /\ UNCHANGED <<snake, food, score, pc>>
               ELSE IF h = food
               THEN /\ snake' = grown(snake, h)
                    /\ score' = score + 10
                    /\ IF generate_food(snake') # {}
                       THEN /\ food' \in generate_food(snake')
                            /\ pc' = pc
                            /\ event' = "eat"
                       ELSE \* generate_food's loop finds no cell: update() does not return
                            /\ food' = food
                            /\ pc' = "generate_food"
                            /\ event' = "stuck"
               ELSE /\ snake' = moved(snake, h)
                    /\ event' = "move"
                    /\ UNCHANGED <<food, score, pc>>

\* ---- VideoProcessor.recv: one frame, dt after the previous clock reading -----
\* max_num_hands = 1: the frame carries one fingertip or none.  The clock readings of
\* line 218 and line 135 fall in the same frame and are taken as one value.
\* lines 212 and 219: the frame may steer
\* (seeded fault: the game_over test of line 212 dropped)
direction_due_while_over(sample, over, t, ldc) ==
    /\ sample # NoHand
    /\ t - ldc > direction_cooldown
\* (seeded fault: the cooldown test of line 219 dropped)
direction_due_no_cooldown(sample, over, t, ldc) ==
    /\ sample # NoHand
    /\ ~over
direction_due(sample, over, t, ldc) ==
    /\ sample # NoHand
    /\ ~over
    /\ t - ldc > direction_cooldown

\* lines 212-223: self.direction after the frame's steering, at clock reading t
steered(sample, t) ==
    IF direction_due(sample, game_over, t, last_direction_change)
    THEN get_hand_direction(sample, snake, direction)
    ELSE direction

\* (seeded fault: update() called before the steering instead of after it)
recv_update_first(dt, sample) ==
    /\ pc = "idle"
    /\ now + dt <= MaxTime
    /\ now' = now + dt
    /\ UNCHANGED <<width, height>>
    /\ direction' = steered(sample, now')
    /\ last_direction_change' =
           IF direction' # direction THEN now' ELSE last_direction_change
    /\ update(now', direction)

recv(dt, sample) ==
    /\ pc = "idle"
    /\ now + dt <= MaxTime
    /\ now' = now + dt
    /\ UNCHANGED <<width, height>>
    /\ direction' = steered(sample, now')
    /\ last_direction_change' =
           IF direction' # direction THEN now' ELSE last_direction_change
    /\ update(now', direction')

\* ---- one more iteration of generate_food's loop while no cell was free -------
generate_food_retry ==
    /\ pc = "generate_food"
    /\ IF generate_food(snake) # {}
       THEN /\ food' \in generate_food(snake)
            /\ pc' = "idle"
            /\ event' = "unstuck"
            /\ UNCHANGED <<width, height, snake, direction, score, game_over,
                           last_update, last_direction_change, now, applied>>
       ELSE UNCHANGED vars

Next ==
    \/ \E dt \in Delays, sample \in Samples : recv(dt, sample)
    \/ \E dt \in ResetDelays : reset_game(dt)
    \/ generate_food_retry

Spec == Init /\ [][Next]_vars

\* ---- get_hand_direction on its own, on the program's 640 x 480 board ------------
\* head cells (centre, centre's neighbours, edges and corners) and the direction in
\* force, of a one-segment snake
ResolverXs == {0, 300, 320, 620}
ResolverYs == {0, 220, 240, 460}
\* fingertip minus head, per axis: around zero, around the dead zone, well beyond it
Offsets == {-80, -41, -40, -39, -10, 0, 5, 10, 39, 40, 41, 80}

ResolverInit ==
    /\ width = 640
    /\ height = 480
    /\ snake \in {<<h>> : h \in ResolverXs \X ResolverYs}
    /\ direction \in Directions
    /\ food = <<100, 100>>
    /\ score = 0
    /\ game_over = FALSE
    /\ last_update = 0
    /\ last_direction_change = 0
    /\ now = 0
    /\ pc = "idle"
    /\ event = <<"init", NoHand, direction>>
    /\ applied = NoDir

\* lines 220-222: the fingertip is resolved and the result stored
resolve(dx, dy) ==
    LET finger == <<snake[1][1] + dx, snake[1][2] + dy>>
    IN  /\ direction' = get_hand_direction(finger, snake, direction)
        /\ event' = <<"resolve", finger, direction>>
        /\ UNCHANGED <<width, height, snake, food, score, game_over, last_update,
                       last_direction_change, now, pc, applied>>

ResolverNext == \E dx \in Offsets, dy \in Offsets : resolve(dx, dy)

SpecResolver == ResolverInit /\ [][ResolverNext]_vars

\* ---- recv() on the video thread against reset_game() on the UI thread ------------
\* webrtc_streamer(async_processing=True) (line 274) calls recv() on its own thread; the
\* Restart handler (lines 286-289) runs on the script thread; both reach the one SnakeGame
\* of st.session_state (lines 198, 203) and the source takes no lock.  Here pc is a record:
\* the statement each thread is at, and update()'s and generate_food()'s local variables.
\* One statement is one step; the clock advances between frames only.
ConcDelays == {game_speed}

\* both threads outside their call, locals cleared
ConcIdle ==
    [video |-> "idle", ui |-> "idle", current_time |-> 0, head |-> NoDir,
     new_head |-> NoDir, score_read |-> 0, video_food |-> NoDir, ui_food |-> NoDir]

\* recv()/update() returns (or raises): position and locals cleared
VideoReturn ==
    [pc EXCEPT !.video = "idle", !.current_time = 0, !.head = NoDir, !.new_head = NoDir,
               !.score_read = 0, !.video_food = NoDir]

ConcInit ==
    /\ width \in {2 * k * grid_size : k \in 1..HalfCols}
    /\ height \in {2 * k * grid_size : k \in 1..HalfRows}
    /\ snake = <<<<width \div 2, height \div 2>>>>
    /\ direction = Right
    /\ food \in generate_food(snake)
    /\ score = 0
    /\ game_over = FALSE
    /\ last_update = 0
    /\ last_direction_change = 0
    /\ now = 0
    /\ pc = ConcIdle
    /\ event = "init"
    /\ applied = NoDir

\* lines 205-225: a frame arrives; the steering block runs, then update() is entered.
\* get_hand_direction reads self.snake[0] (line 112): IndexError on an empty list.
recv_begin(dt, sample) ==
    /\ pc.video = "idle"
    /\ now + dt <= MaxTime
    /\ now' = now + dt
    /\ IF direction_due(sample, game_over, now', last_direction_change) /\ snake = <<>>
       THEN /\ event' = "IndexError"
            /\ UNCHANGED <<direction, last_direction_change, pc>>
       ELSE /\ direction' = steered(sample, now')
            /\ last_direction_change' =
                   IF direction' # direction THEN now' ELSE last_direction_change
            /\ pc' = [pc EXCEPT !.video = "132"]
            /\ event' = "frame"
    /\ UNCHANGED <<width, height, snake, food, score, game_over, last_update, applied>>

\* lines 132-133
update_132 ==
    /\ pc.video = "132"
    /\ pc' = IF game_over THEN VideoReturn ELSE [pc EXCEPT !.video = "135"]
    /\ UNCHANGED <<width, height, snake, direction, food, score, game_over, last_update,
                   last_direction_change, now, event, applied>>

\* lines 135-137
update_135 ==
    /\ pc.video = "135"
    /\ pc' = IF tick_not_due(now, last_update)
             THEN VideoReturn
             ELSE [pc EXCEPT !.video = "139", !.current_time = now]
    /\ UNCHANGED <<width, height, snake, direction, food, score, game_over, last_update,
                   last_direction_change, now, event, applied>>

\* line 139
update_139 ==
    /\ pc.video = "139"
    /\ last_update' = pc.current_time
    /\ pc' = [pc EXCEPT !.video = "141"]
    /\ UNCHANGED <<width, height, snake, direction, food, score, game_over,
                   last_direction_change, now, event, applied>>

\* line 141: self.snake[0] raises IndexError on an empty list
update_141 ==
    /\ pc.video = "141"
    /\ IF snake = <<>>
       THEN /\ pc' = VideoReturn
            /\ event' = "IndexError"
       ELSE /\ pc' = [pc EXCEPT !.video = "142", !.head = snake[1]]
            /\ event' = event
    /\ UNCHANGED <<width, height, snake, direction, food, score, game_over, last_update,
                   last_direction_change, now, applied>>

\* line 142
update_142 ==
    /\ pc.video = "142"
    /\ pc' = [pc EXCEPT !.video = "144", !.new_head = new_head(<<pc.head>>, direction)]
    /\ UNCHANGED <<width, height, snake, direction, food, score, game_over, last_update,
                   last_direction_change, now, event, applied>>

\* lines 144-148
update_144 ==
    /\ pc.video = "144"
    /\ IF hits_wall(pc.new_head) \/ hits_body(pc.new_head, snake)
       THEN /\ game_over' = TRUE
            /\ pc' = VideoReturn
       ELSE /\ game_over' = game_over
            /\ pc' = [pc EXCEPT !.video = "150"]
    /\ UNCHANGED <<width, height, snake, direction, food, score, last_update,
                   last_direction_change, now, event, applied>>

\* line 150: insert into whichever list self.snake names now
update_150 ==
    /\ pc.video = "150"
    /\ snake' = grown(snake, pc.new_head)
    /\ pc' = [pc EXCEPT !.video = "152"]
    /\ UNCHANGED <<width, height, direction, food, score, game_over, last_update,
                   last_direction_change, now, event, applied>>

\* line 152
update_152 ==
    /\ pc.video = "152"
    /\ pc' = [pc EXCEPT !.video = IF pc.new_head = food THEN "153" ELSE "156"]
    /\ UNCHANGED <<width, height, snake, direction, food, score, game_over, last_update,
                   last_direction_change, now, event, applied>>

\* line 153, self.score += 10: the load
update_153_load ==
    /\ pc.video = "153"
    /\ pc' = [pc EXCEPT !.video = "153_store", !.score_read = score]
    /\ UNCHANGED <<width, height, snake, direction, food, score, game_over, last_update,
                   last_direction_change, now, event, applied>>

\* line 153, self.score += 10: the store
update_153_store ==
    /\ pc.video = "153_store"
    /\ score' = pc.score_read + 10
    /\ pc' = [pc EXCEPT !.video = "154"]
    /\ UNCHANGED <<width, height, snake, direction, food, game_over, last_update,
                   last_direction_change, now, event, applied>>

\* line 154, the call of generate_food (lines 98-103): loops while no cell is free
update_154_call ==
    /\ pc.video = "154"
    /\ IF generate_food(snake) = {}
       THEN pc' = pc
       ELSE \E p \in generate_food(snake) :
                pc' = [pc EXCEPT !.video = "154_store", !.video_food = p]
    /\ UNCHANGED <<width, height, snake, direction, food, score, game_over, last_update,
                   last_direction_change, now, event, applied>>

\* line 154, the assignment to self.food
update_154_store ==
    /\ pc.video = "154_store"
    /\ food' = pc.video_food
    /\ pc' = VideoReturn
    /\ UNCHANGED <<width, height, snake, direction, score, game_over, last_update,
                   last_direction_change, now, event, applied>>

\* line 156: pop from whichever list self.snake names now (never empty here: line 150 ran
\* in this call and reset_game leaves one segment)
update_156 ==
    /\ pc.video = "156"
    /\ snake' = SubSeq(snake, 1, Len(snake) - 1)
    /\ pc' = VideoReturn
    /\ UNCHANGED <<width, height, direction, food, score, game_over, last_update,
                   last_direction_change, now, event, applied>>

\* line 289: the Restart button calls reset_game()
reset_begin ==
    /\ pc.ui = "idle"
    /\ pc' = [pc EXCEPT !.ui = "90"]
    /\ UNCHANGED <<width, height, snake, direction, food, score, game_over, last_update,
                   last_direction_change, now, event, applied>>

\* line 90: self.snake is bound to a new list
reset_90 ==
    /\ pc.ui = "90"
    /\ snake' = <<<<width \div 2, height \div 2>>>>
    /\ pc' = [pc EXCEPT !.ui = "91"]
    /\ UNCHANGED <<width, height, direction, food, score, game_over, last_update,
                   last_direction_change, now, event, applied>>

\* line 91
reset_91 ==
    /\ pc.ui = "91"
    /\ direction' = Right
    /\ pc' = [pc EXCEPT !.ui = "92"]
    /\ UNCHANGED <<width, height, snake, food, score, game_over, last_update,
                   last_direction_change, now, event, applied>>

\* line 92, the call of generate_food
reset_92_call ==
    /\ pc.ui = "92"
    /\ IF generate_food(snake) = {}
       THEN pc' = pc
       ELSE \E p \in generate_food(snake) :
                pc' = [pc EXCEPT !.ui = "92_store", !.ui_food = p]
    /\ UNCHANGED <<width, height, snake, direction, food, score, game_over, last_update,
                   last_direction_change, now, event, applied>>

\* line 92, the assignment to self.food
reset_92_store ==
    /\ pc.ui = "92_store"
    /\ food' = pc.ui_food
    /\ pc' = [pc EXCEPT !.ui = "93", !.ui_food = NoDir]
    /\ UNCHANGED <<width, height, snake, direction, score, game_over, last_update,
                   last_direction_change, now, event, applied>>

\* line 93
reset_93 ==
    /\ pc.ui = "93"
    /\ score' = 0
    /\ pc' = [pc EXCEPT !.ui = "94"]
    /\ UNCHANGED <<width, height, snake, direction, food, game_over, last_update,
                   last_direction_change, now, event, applied>>

\* line 94
reset_94 ==
    /\ pc.ui = "94"
    /\ game_over' = FALSE
    /\ pc' = [pc EXCEPT !.ui = "95"]
    /\ UNCHANGED <<width, height, snake, direction, food, score, last_update,
                   last_direction_change, now, event, applied>>

\* line 95
reset_95 ==
    /\ pc.ui = "95"
    /\ last_update' = now
    /\ pc' = [pc EXCEPT !.ui = "idle"]
    /\ UNCHANGED <<width, height, snake, direction, food, score, game_over,
                   last_direction_change, now, event, applied>>

ConcNext ==
    \/ \E dt \in ConcDelays, sample \in Samples : recv_begin(dt, sample)
    \/ update_132
    \/ update_135
    \/ update_139
    \/ update_141
    \/ update_142
    \/ update_144
    \/ update_150
    \/ update_152
    \/ update_153_load
    \/ update_153_store
    \/ update_154_call
    \/ update_154_store
    \/ update_156
    \/ reset_begin
    \/ reset_90
    \/ reset_91
    \/ reset_92_call
    \/ reset_92_store
    \/ reset_93
    \/ reset_94
    \/ reset_95

SpecConc == ConcInit /\ [][ConcNext]_vars

\* ==== properties ===============================================================

\* a cell of the board: grid-aligned and inside [0, width) x [0, height)
OnBoard(p) ==
    /\ 0 <= p[1] /\ p[1] < width /\ p[1] % grid_size = 0
    /\ 0 <= p[2] /\ p[2] < height /\ p[2] % grid_size = 0

\* the step is one frame through recv (reset_game is the other step that reads the clock)
RecvStep == now' # now /\ event' # "reset"
\* the frame's update() call is past both early returns
ActingTick == RecvStep /\ ~game_over /\ now' - last_update >= game_speed
\* the cell update() computes as new_head in this step: head + the direction recv left in self.direction
StepHead == <<snake[1][1] + direction'[1], snake[1][2] + direction'[2]>>
\* the current tail, when it is not the head itself
TailCell == snake[Len(snake)]
\* the body segments other than the current tail
BodyButTail == {snake[i] : i \in 2..(Len(snake) - 1)}

\* C1: no-reversal: the direction an acting tick uses is never the exact negation of the
\* direction the previous acting tick of the same game used.
C1_NoReversal ==
    [][(ActingTick /\ applied # NoDir) => direction' # Negate(applied)]_vars

\* C2: collision correctness: on an acting tick that eats no food, a head moving onto a body
\* segment other than the current tail ends the game, and a head moving onto the current
\* tail's cell (vacated this tick) does not.
C2_CollisionCorrectness ==
    [][(ActingTick /\ StepHead # food) =>
          /\ (StepHead \in BodyButTail => game_over')
          /\ ((Len(snake) >= 2 /\ StepHead = TailCell /\ StepHead \notin BodyButTail)
                 => ~game_over')]_vars

\* the snake after exactly one head step to StepHead
OneHeadStep ==
    \/ game_over' /\ snake' = snake
    \/ /\ ~game_over'
       /\ snake'[1] = StepHead
       /\ Len(snake') \in {Len(snake), Len(snake) + 1}
       /\ \A i \in 2..Len(snake') : snake'[i] = snake[i - 1]

\* C3: rate independence: an update() call less than game_speed after the last acting tick
\* (or reset) changes none of snake, food, score, game_over, last_update; last_update moves
\* only on a call at least game_speed after it; and a call of a running game at or after
\* game_speed takes exactly one head step.
C3_RateIndependence ==
    [][RecvStep =>
          /\ (now' - last_update < game_speed =>
                 UNCHANGED <<snake, food, score, game_over, last_update>>)
          /\ (last_update' # last_update => now' - last_update >= game_speed)
          /\ ((~game_over /\ now' - last_update >= game_speed) =>
                 (last_update' = now' /\ OneHeadStep))]_vars

\* a call inside the tick window, after an acting tick of this game
C3_Witness ==
    /\ event = "wait"
    /\ applied # NoDir
    /\ now - last_update < game_speed

\* C4: food placement with no free cell: an eating tick that fills the last free cell has
\* generate_food terminate and report, leaving snake and score as before the tick.
C4_NoFreeCellReported ==
    [][(ActingTick /\ StepHead = food /\ StepHead \notin Body(snake)
          /\ Cells \subseteq (Segments(snake) \cup {StepHead})) =>
          (pc' = "idle" /\ snake' = snake /\ score' = score)]_vars

\* C5: growth law: an acting tick whose new head is the food cell (and no collision)
\* prepends the head and keeps the tail (length + 1), adds exactly 10 to score, and the
\* food cell update() returns with is a board cell off the new snake, new head included.
C5_GrowthLaw ==
    [][(ActingTick /\ StepHead = food /\ OnBoard(StepHead) /\ StepHead \notin Body(snake)) =>
          /\ snake' = <<StepHead>> \o snake
          /\ Len(snake') = Len(snake) + 1
          /\ score' = score + 10
          /\ (pc' = "idle" => (OnBoard(food') /\ food' \notin Segments(snake')))]_vars

\* food was eaten by a snake of two or more segments and placed again off the snake
C5_Witness ==
    /\ event = "eat"
    /\ Len(snake) >= 3
    /\ score = 10 * (Len(snake) - 1)
    /\ food \notin Segments(snake)

\* C6: food/snake disjointness: between operations (after construction, reset_game and every
\* frame that returned) the food cell is grid-aligned, inside the board and on no segment.
C6_FoodOffSnake ==
    pc = "idle" => (OnBoard(food) /\ food \notin Segments(snake))

\* food sits next to the head of a snake that has already grown
C6_Witness ==
    /\ pc = "idle"
    /\ ~game_over
    /\ Len(snake) >= 2
    /\ \E d \in Directions : food = <<snake[1][1] + d[1], snake[1][2] + d[2]>>

\* C7: bounds invariant: running or over, every segment is a board cell.
C7_SnakeOnBoard ==
    \A i \in 1..Len(snake) : OnBoard(snake[i])

\* a tick ran the head into a wall: the game is over and the head stayed on the board
C7_Witness ==
    /\ event = "collide"
    /\ game_over
    /\ ~OnBoard(<<snake[1][1] + direction[1], snake[1][2] + direction[2]>>)

\* C8: no self-overlap: while the game is running no two segments share a cell.
C8_NoSelfOverlap ==
    ~game_over => Cardinality(Segments(snake)) = Len(snake)

\* a running snake whose head is next to a segment of its own body beyond the neck
C8_Witness ==
    /\ ~game_over
    /\ Len(snake) >= 4
    /\ \E i \in 3..Len(snake), d \in Directions :
           snake[i] = <<snake[1][1] + d[1], snake[1][2] + d[2]>>

\* C9: contiguity: the snake is non-empty and each segment is one cardinal step of grid_size
\* from the next.
C9_Contiguous ==
    /\ Len(snake) >= 1
    /\ \A i \in 1..(Len(snake) - 1) :
           <<snake[i][1] - snake[i + 1][1], snake[i][2] - snake[i + 1][2]>> \in Directions

\* a snake that has turned a corner: three segments not in one line
C9_Witness ==
    /\ Len(snake) >= 3
    /\ snake[1][1] # snake[3][1]
    /\ snake[1][2] # snake[3][2]

\* C10: game-over is absorbing: once True, game_over stays True through every frame; only
\* reset_game returns it to False.
C10_GameOverAbsorbing ==
    [][(game_over /\ ~game_over') => event' = "reset"]_vars

\* a frame carrying a pointer sample was processed while the game was over
C10_Witness ==
    /\ game_over
    /\ event = "over"
    /\ score > 0

\* C11: no-op while over: while game_over is True a frame, with or without a pointer
\* sample, leaves snake, food, score, direction, last_update and last_direction_change
\* as they are.
C11_NoOpWhileOver ==
    [][(RecvStep /\ game_over) =>
          UNCHANGED <<snake, food, score, direction, last_update,
                      last_direction_change, game_over>>]_vars

\* a frame arrived while the game was over and the cooldown had long run out
C11_Witness ==
    /\ game_over
    /\ event = "over"
    /\ now - last_direction_change > direction_cooldown
    /\ now - last_update >= game_speed

\* the step is reset_game
ResetStep == now' # now /\ event' = "reset"

\* C12: reset: reset_game leaves the one-segment snake at (width/2, height/2), direction
\* Right, score 0, game_over False, food on a board cell off the snake and last_update at
\* the clock reading of the reset, so that a frame less than game_speed later does not act.
C12_Reset ==
    [][/\ ResetStep =>
             /\ snake' = << <<width \div 2, height \div 2>> >>
             /\ direction' = <<grid_size, 0>>
             /\ score' = 0
             /\ game_over' = FALSE
             /\ OnBoard(food') /\ food' \notin Segments(snake')
             /\ last_update' = now'
       /\ (event = "reset" /\ RecvStep /\ now' - now < game_speed) =>
             UNCHANGED <<snake, food, score, game_over, last_update>>]_vars

\* the game was restarted after it had been steered
C12_Witness ==
    /\ event = "reset"
    /\ last_direction_change > 0
    /\ last_update = now
    /\ Len(snake) = 1

\* C14: debounce: a frame without a pointer sample never changes the direction, a frame
\* less than direction_cooldown after the last accepted change never changes it, and
\* last_direction_change moves only on a frame that changes the direction, to that
\* frame's clock reading.
C14_Debounce ==
    /\ [](\A dt \in Delays : steered(NoHand, now + dt) = direction)
    /\ [][RecvStep =>
             /\ (now' - last_direction_change < direction_cooldown =>
                    direction' = direction)
             /\ (last_direction_change' # last_direction_change <=>
                    direction' # direction)
             /\ (direction' # direction => last_direction_change' = now')]_vars

\* a second change was accepted in this game, after the cooldown of the first
C14_Witness ==
    /\ last_direction_change = now
    /\ now >= 2 * (direction_cooldown + 1)
    /\ applied \in {Up, Down}
    /\ direction \in {Left, Right}
    /\ ~game_over

\* C16: last direction wins: an acting tick moves the head by the direction stored when
\* update() runs: the change accepted in the same frame if there is one, and the direction
\* of the previous acting tick (Right after a reset) if no change was accepted since.
C16_LastDirectionWins ==
    [][ActingTick =>
          /\ (~game_over' => snake'[1] = StepHead)
          /\ (game_over' => (~OnBoard(StepHead) \/ StepHead \in Body(snake)))
          /\ (last_direction_change' <= last_update =>
                 direction' = IF applied = NoDir THEN <<grid_size, 0>> ELSE applied)]_vars

\* a tick moved a grown snake by a direction accepted in its own frame
C16_Witness ==
    /\ event \in {"move", "eat"}
    /\ last_direction_change = now
    /\ last_update = now
    /\ Len(snake) >= 2
    /\ <<snake[1][1] - snake[2][1], snake[1][2] - snake[2][2]>> = direction

\* C17: plain move: an acting tick that neither collides nor lands on the food stores the
\* new head followed by the old snake without its last segment, and leaves length, score,
\* food and game_over as they are.
C17_PlainMove ==
    [][(ActingTick /\ OnBoard(StepHead) /\ StepHead \notin Body(snake)
          /\ StepHead # food) =>
          /\ snake' = <<StepHead>> \o SubSeq(snake, 1, Len(snake) - 1)
          /\ Len(snake') = Len(snake)
          /\ UNCHANGED <<score, food, game_over, pc>>]_vars

\* a snake of three segments made a plain move
C17_Witness ==
    /\ event = "move"
    /\ Len(snake) >= 3
    /\ ~game_over

\* C18: a collision tick leaves the board intact: when the new head is off the board or on
\* a body segment, the tick sets game_over and leaves snake, food and score as they are.
C18_CollisionLeavesBoard ==
    [][(ActingTick /\ (~OnBoard(StepHead) \/ StepHead \in Body(snake))) =>
          /\ game_over'
          /\ UNCHANGED <<snake, food, score, pc>>]_vars

\* a tick ran the head into the snake's own body
C18_Witness ==
    /\ event = "collide"
    /\ game_over
    /\ <<snake[1][1] + direction[1], snake[1][2] + direction[2]>> \in Body(snake)

\* C19: score/length coupling: score is 10 * (len(snake) - 1) in every state.
C19_ScoreLength ==
    score = 10 * (Len(snake) - 1)

\* the first food of a game was eaten after more than three tick intervals
C19_Witness ==
    /\ score = 10
    /\ Len(snake) = 2
    /\ last_update > 3 * game_speed
    /\ event = "eat"

\* the number of cells between p and the wall that direction d runs into
StepsAhead(p, d) ==
    IF d[1] > 0 THEN (width - grid_size - p[1]) \div grid_size
    ELSE IF d[1] < 0 THEN p[1] \div grid_size
    ELSE IF d[2] > 0 THEN (height - grid_size - p[2]) \div grid_size
    ELSE p[2] \div grid_size

MaxStraight == (IF width > height THEN width ELSE height) \div grid_size

\* C20: an unsteered game ends within max(width, height) / grid_size acting ticks: in a
\* running game fewer than that many cells lie ahead of the head, and every acting tick of
\* a frame that accepts no direction change either ends the game or leaves one cell fewer
\* ahead, food eaten or not.
C20_UnsteeredGameEnds ==
    /\ [](~game_over => StepsAhead(snake[1], direction) \in 0..(MaxStraight - 1))
    /\ [][(ActingTick /\ direction' = direction) =>
             \/ game_over'
             \/ StepsAhead(snake'[1], direction') = StepsAhead(snake[1], direction) - 1]_vars

\* a snake that had eaten ran straight into a wall, two ticks and more after its last turn
C20_Witness ==
    /\ event = "collide"
    /\ game_over
    /\ Len(snake) >= 2
    /\ <<snake[1][1] - snake[2][1], snake[1][2] - snake[2][2]>> = direction
    /\ ~OnBoard(<<snake[1][1] + direction[1], snake[1][2] + direction[2]>>)
    /\ last_update - last_direction_change >= 2 * game_speed

\* the direction the resolver is to return for a fingertip, a head and the direction in force
ExpectedDirection(finger, head, dir) ==
    LET dx == finger[1] - head[1]
        dy == finger[2] - head[2]
        dominant == IF Abs(dx) > Abs(dy) THEN Abs(dx) ELSE Abs(dy)
        candidate ==
            IF Abs(dx) > Abs(dy)
            THEN (IF dx > 0 THEN Right ELSE Left)
            ELSE (IF dy > 0 THEN Down ELSE Up)
    IN  IF dominant <= dead_zone \/ Abs(dx) = Abs(dy) \/ candidate = Negate(dir)
        THEN dir
        ELSE candidate

\* C13: resolver result: get_hand_direction returns the direction in force when the
\* dominant displacement is <= 40, when |dx| = |dy|, or when the candidate negates the
\* direction in force; otherwise the cardinal direction of the strictly larger axis, with
\* the sign of that displacement.
C13_ResolverResult ==
    event[1] = "resolve" =>
        direction = ExpectedDirection(event[2], snake[1], event[3])

\* head (320,240) moving Up, fingertip (400,250): resolved to Right
C13_Witness ==
    /\ event[1] = "resolve"
    /\ snake[1] = <<320, 240>>
    /\ event[2] = <<400, 250>>
    /\ event[3] = Up
    /\ direction = Right

\* neither thread is inside its call
Quiescent == pc.video = "idle" /\ pc.ui = "idle"

\* C15: serialization: whenever recv()/update() and reset_game() have both returned, the
\* state is one a serial order of the calls produces: the snake is a non-empty contiguous
\* chain, food is on no segment, and score is ten per segment beyond the first.
C15_Serializable ==
    Quiescent =>
        /\ Len(snake) >= 1
        /\ \A i \in 1..(Len(snake) - 1) :
               <<snake[i][1] - snake[i + 1][1], snake[i][2] - snake[i + 1][2]>> \in Directions
        /\ food \notin Segments(snake)
        /\ score = 10 * (Len(snake) - 1)

====
